---- MODULE Spec2Model ----
(***************************************************************************)
(* Kickstarter crawler (crawler.py): the crawl loop of crawl(), the item   *)
(* extraction of crawl_project() and the field / reward extractors, as a   *)
(* state machine.  Text is modelled as sequences of one-character strings  *)
(* so that find, slicing, strip, split and int() are computed as Python    *)
(* computes them.                                                          *)
(***************************************************************************)
EXTENDS Integers, Sequences, FiniteSets, TLC

VARIABLES
    pc,             \* position of the process: see the actions
    num_projects,   \* crawl(num_projects): the requested quota
    feed,           \* what the discovery feed has still to serve: entries and page breaks
    page,           \* discover_url_iter: local `page`
    discover_url,   \* page number of the link last yielded (-1: none yet)
    data,           \* data[PROJECTS] of the page being processed
    idx,            \* position of the inner for loop in data (1-based)
    project,        \* the feed entry being processed (None: none)
    crawled_urls,   \* crawl: crawled_urls
    records,        \* data_dict[RECORDS][RECORD]
    project_id_id,  \* project_id.id
    project_html,   \* crawl_project: project_html (None: none)
    last_call,      \* kind of the last requests.get: "none", "page" or "item"
    slept,          \* time spent in time.sleep since the last requests.get
    item_fetches,   \* urls passed to requests.get by crawl_project, in order
    output,         \* content of the output file (None: not written)
    call,           \* an extractor called on its own: [fn, arg]
    ret             \* its result
vars == <<pc, num_projects, feed, page, discover_url, data, idx, project,
          crawled_urls, records, project_id_id, project_html, last_call, slept,
          item_fetches, output, call, ret>>

----------------------------------------------------------------------------
(* Bounds                                                                  *)
MaxQuota == 2       \* num_projects ranges over 0 .. MaxQuota
MaxFeedLen == 4     \* entries plus page breaks the feed serves at most
ExtraPages == 2     \* page fetches followed beyond the feed's last page

MaxPage == MaxFeedLen + ExtraPages

----------------------------------------------------------------------------
(* Python primitives on character sequences                                *)

None == <<>>
Some(x) == <<x>>
IsNone(o) == o = <<>>
Get(o) == o[1]

Ok(v) == [ok |-> TRUE, val |-> v]
Raised == [ok |-> FALSE]

Min(a, b) == IF a < b THEN a ELSE b
Max(a, b) == IF a > b THEN a ELSE b

\* s[i:j] with 0 <= i, 0 <= j (already normalised indices)
Slice(s, i, j) == SubSeq(s, i + 1, Min(j, Len(s)))

\* s[:k], k possibly negative
SliceTo(s, k) == IF k >= 0 THEN Slice(s, 0, k) ELSE Slice(s, 0, Max(Len(s) + k, 0))

\* s.find(sub): lowest 0-based index of sub in s, -1 when absent
StartsAt(s, sub, i) ==
    /\ i + Len(sub) <= Len(s)
    /\ \A k \in 1..Len(sub) : s[i + k] = sub[k]
Find(s, sub) ==
    IF \E i \in 0..Len(s) : StartsAt(s, sub, i)
    THEN CHOOSE i \in 0..Len(s) :
            /\ StartsAt(s, sub, i)
            /\ \A j \in 0..(i - 1) : ~StartsAt(s, sub, j)
    ELSE -1

\* s.strip(): the only whitespace of the modelled alphabet is " "
RECURSIVE LStrip(_)
LStrip(s) == IF s # <<>> /\ Head(s) = " " THEN LStrip(Tail(s)) ELSE s
RECURSIVE RStrip(_)
RStrip(s) == IF s # <<>> /\ s[Len(s)] = " " THEN RStrip(SubSeq(s, 1, Len(s) - 1)) ELSE s
Strip(s) == RStrip(LStrip(s))

\* s.split(' ')[-1]: what follows the last space
RECURSIVE LastToken(_)
LastToken(s) ==
    IF Find(s, <<" ">>) = -1 THEN s
    ELSE LastToken(SubSeq(s, Find(s, <<" ">>) + 2, Len(s)))

\* s.replace(',', '')
RECURSIVE RemoveCommas(_)
RemoveCommas(s) ==
    IF s = <<>> THEN <<>>
    ELSE IF Head(s) = "," THEN RemoveCommas(Tail(s))
    ELSE <<Head(s)>> \o RemoveCommas(Tail(s))

Digits == <<"0", "1", "2", "3", "4", "5", "6", "7", "8", "9">>
IsDigit(c) == \E d \in 1..10 : Digits[d] = c
DigitVal(c) == (CHOOSE d \in 1..10 : Digits[d] = c) - 1

\* ''.join(filter(str.isdigit, s))
RECURSIVE OnlyDigits(_)
OnlyDigits(s) ==
    IF s = <<>> THEN <<>>
    ELSE IF IsDigit(Head(s)) THEN <<Head(s)>> \o OnlyDigits(Tail(s))
    ELSE OnlyDigits(Tail(s))

RECURSIVE DecimalValue(_)
DecimalValue(s) ==
    IF s = <<>> THEN 0 ELSE 10 * DecimalValue(SubSeq(s, 1, Len(s) - 1)) + DigitVal(s[Len(s)])

AllDigits(s) == s # <<>> /\ \A k \in 1..Len(s) : IsDigit(s[k])

\* int(s): surrounding whitespace ignored, optional sign, decimal digits;
\* anything else raises ValueError
PyInt(s) ==
    LET t == Strip(s) IN
    IF AllDigits(t) THEN Ok(DecimalValue(t))
    ELSE IF t # <<>> /\ Head(t) = "-" /\ AllDigits(Tail(t)) THEN Ok(0 - DecimalValue(Tail(t)))
    ELSE IF t # <<>> /\ Head(t) = "+" /\ AllDigits(Tail(t)) THEN Ok(DecimalValue(Tail(t)))
    ELSE Raised

----------------------------------------------------------------------------
(* Texts of the source and of the modelled documents                       *)

RefMarker == <<"?", "r", "e", "f">>
BackerMarker == <<" ", "b", "a", "c", "k", "e", "r">>
RewardUnavailable == <<"R", "e", "w", "a", "r", "d", " ", "n", "o", " ", "l", "o", "n", "g", "e", "r", " ", "a", "v", "a", "i", "l", "a", "b", "l", "e">>
AllOrNothingText == <<"A", "l", "l", " ", "o", "r", " ", "n", "o", "t", "h", "i", "n", "g">>

----------------------------------------------------------------------------
(* Field extractors (field_func_map)                                       *)
(* A feed entry is [url, complete]: url is urls.web.project, complete says *)
(* that creator.name, name, converted_pledged_amount, backers_count and    *)
(* deadline are present and well-typed.                                    *)
(* A detail document is [badges, pledges]: the texts of its                *)
(* span.link-soft-black.medium elements and its div.pledge__info blocks,   *)
(* both in document order.                                                 *)

\* (project_id without its increment)
project_id_stale(counter) == counter

\* project_id: project_id.id += 1; return project_id.id
project_id(counter) == counter + 1

\* url[:url.find('?ref')]
project_url(p) == SliceTo(p.url, Find(p.url, RefMarker))

\* project_creator, project_title, project_pledged, project_backers,
\* project_days: each reads keys of the feed entry and raises when one is
\* missing or ill-typed
project_feed_fields(p) == IF p.complete THEN Ok(TRUE) ELSE Raised

SECONDS_PER_DAY == 86400

\* (the difference in days rounded toward zero)
project_days_truncated(deadline, now) ==
    IF deadline >= now THEN (deadline - now) \div SECONDS_PER_DAY
    ELSE 0 - ((now - deadline) \div SECONDS_PER_DAY)

\* project_days: (deadline - datetime.now()).days, both taken as naive
\* whole seconds.  A timedelta is kept normalised with 0 <= seconds < 86400,
\* so its days attribute is the difference divided by a day, rounded down.
project_days(deadline, now) == (deadline - now) \div SECONDS_PER_DAY

\* soup.find returns the first badge span or None
project_all_nothing(html) ==
    IF html.badges = <<>> THEN FALSE
    ELSE Find(html.badges[1], AllOrNothingText) # -1

----------------------------------------------------------------------------
(* Reward extractors (reward_func_map)                                     *)
(* A pledge block is [desc, money, stats]: the optional text of its        *)
(* description div and of its currency-conversion span, and its optional   *)
(* backer-stats div [count, limit] with the optional texts of the          *)
(* backer-count and limit spans.                                           *)

pledge_text(pledge) ==
    IF IsNone(pledge.desc) THEN Raised ELSE Ok(Strip(Get(pledge.desc)))

get_digits(string) == PyInt(OnlyDigits(string))

pledge_price(pledge) ==
    IF IsNone(pledge.money) THEN Raised ELSE get_digits(Strip(Get(pledge.money)))

pledge_backers(pledge) ==
    IF IsNone(pledge.stats) THEN Raised
    ELSE IF IsNone(Get(pledge.stats).count) THEN Raised
    ELSE LET backers == Strip(Get(Get(pledge.stats).count))
             cut == SliceTo(backers, Find(backers, BackerMarker))
         IN  PyInt(RemoveCommas(cut))

\* (pledge_total_backers parsing the whole trailing token, bracket included)
pledge_total_backers_whole(pledge) ==
    IF IsNone(pledge.stats) THEN Raised
    ELSE IF IsNone(Get(pledge.stats).limit) THEN Ok(-1)
    ELSE LET text == Strip(Get(Get(pledge.stats).limit)) IN
         IF text = RewardUnavailable THEN pledge_backers(pledge)
         ELSE LET total == PyInt(LastToken(text)) IN
              IF total.ok THEN total ELSE Ok(-2)

pledge_total_backers(pledge) ==
    IF IsNone(pledge.stats) THEN Raised
    ELSE IF IsNone(Get(pledge.stats).limit) THEN Ok(-1)
    ELSE LET text == Strip(Get(Get(pledge.stats).limit)) IN
         IF text = RewardUnavailable THEN pledge_backers(pledge)
         ELSE LET total == PyInt(SliceTo(LastToken(text), -1)) IN
              IF total.ok THEN total ELSE Ok(-2)

\* the inner loop of crawl_project over reward_func_map for one block
reward_dict(pledge) ==
    LET t == pledge_text(pledge)
        p == pledge_price(pledge)
        b == pledge_backers(pledge)
        l == pledge_total_backers(pledge)
    IN  IF t.ok /\ p.ok /\ b.ok /\ l.ok
        THEN Ok([Text |-> t.val, Price |-> p.val, NumBackers |-> b.val,
                 TotalPossibleBackers |-> l.val])
        ELSE Raised

\* (every block extracted, the first one too)
pledges_all(pledges) == pledges

\* pledges[1:]
pledges_to_extract(pledges) == SubSeq(pledges, 2, Len(pledges))

\* crawl_project without its network call: the record built from the feed
\* entry, the fetched document and the id drawn from project_id
crawl_project(p, html, id) ==
    LET todo == pledges_to_extract(html.pledges)
        rewards == [i \in 1..Len(todo) |-> reward_dict(todo[i])]
    IN  IF ~project_feed_fields(p).ok THEN Raised
        ELSE IF \E i \in 1..Len(todo) : ~rewards[i].ok THEN Raised
        ELSE Ok([id |-> id, url |-> project_url(p),
                 AllOrNothing |-> project_all_nothing(html),
                 rewards |-> [i \in 1..Len(todo) |-> rewards[i].val]])

----------------------------------------------------------------------------
(* The remote service: feed entries, discovery pages, detail documents     *)

SeqsUpTo(S, n) == UNION {[1..k -> S] : k \in 0..n}

UrlA == <<"a", "?", "r", "e", "f">>
UrlA2 == <<"a", "?", "r", "e", "f", "=", "x">>
UrlB == <<"b", "?", "r", "e", "f">>
UrlC == <<"c", "?", "r", "e", "f">>

EntryA == [url |-> UrlA, complete |-> TRUE]
EntryA2 == [url |-> UrlA2, complete |-> TRUE]
EntryB == [url |-> UrlB, complete |-> TRUE]
EntryC == [url |-> UrlC, complete |-> FALSE]
Entries == {EntryA, EntryA2, EntryB, EntryC}

\* the feed is served as a sequence of entries cut into pages by PageBreak
PageBreak == [url |-> <<>>, complete |-> FALSE]
Feeds == SeqsUpTo(Entries \cup {PageBreak}, MaxFeedLen)

HasBreak(f) == \E i \in 1..Len(f) : f[i] = PageBreak
FirstBreak(f) == CHOOSE i \in 1..Len(f) : f[i] = PageBreak /\ \A j \in 1..(i - 1) : f[j] # PageBreak
\* the next page of the feed (empty once the feed is exhausted) and what is left
NextPageOf(f) == IF HasBreak(f) THEN SubSeq(f, 1, FirstBreak(f) - 1) ELSE f
RestOf(f) == IF HasBreak(f) THEN SubSeq(f, FirstBreak(f) + 1, Len(f)) ELSE <<>>

SevenBackers == <<"7", " ", "b", "a", "c", "k", "e", "r", "s">>
ManyBackers == <<"1", ",", "2", "0", "4", " ", "b", "a", "c", "k", "e", "r", "s">>
LimitedThreeOfTen == <<"L", "i", "m", "i", "t", "e", "d", " ", "(", "3", " ", "l", "e", "f", "t", " ", "o", "f", " ", "1", "0", ")">>
PriceText == <<"A", "b", "o", "u", "t", " ", "$", "2", "5">>

\* the leading "pledge without a reward" block: no description, no stats
NoRewardBlock == [desc |-> None, money |-> None, stats |-> None]
BlockA == [desc |-> Some(<<" ", "A", " ">>), money |-> Some(PriceText),
           stats |-> Some([count |-> Some(SevenBackers), limit |-> None])]
BlockB == [desc |-> Some(<<"B">>), money |-> Some(PriceText),
           stats |-> Some([count |-> Some(ManyBackers), limit |-> Some(LimitedThreeOfTen)])]
\* a reward block whose price element is missing
BlockBad == [desc |-> Some(<<"C">>), money |-> None,
             stats |-> Some([count |-> Some(SevenBackers), limit |-> None])]

\* documents the item fetch of a crawl may return
DocEmpty == [badges |-> <<>>, pledges |-> <<>>]
DocGood == [badges |-> <<AllOrNothingText>>, pledges |-> <<NoRewardBlock, BlockB>>]
DocBad == [badges |-> <<>>, pledges |-> <<NoRewardBlock, BlockA, BlockBad>>]
CrawlDocs == {DocEmpty, DocGood, DocBad}

----------------------------------------------------------------------------
(* The process: __main__ calls crawl(num_projects) once and writes its     *)
(* result to the output file.                                              *)

SLEEP == 2

NoCall == [fn |-> "none"]

Init ==
    /\ pc = "crawl_loop"
    /\ num_projects \in 0..MaxQuota
    /\ feed \in Feeds
    /\ page = 0
    /\ discover_url = -1
    /\ data = <<>>
    /\ idx = 1
    /\ project = None
    /\ crawled_urls = {}
    /\ records = <<>>
    /\ project_id_id = -1
    /\ project_html = None
    /\ last_call = "none"
    /\ slept = 0
    /\ item_fetches = <<>>
    /\ output = None
    /\ call = NoCall
    /\ ret = None

\* (the cursor incremented before the link is made)
FetchPage_IncrementFirst ==
    /\ pc = "crawl_loop"
    /\ page < MaxPage
    /\ discover_url' = page + 1
    /\ page' = page + 1
    /\ last_call' = "page"
    /\ slept' = 0
    /\ data' = NextPageOf(feed)
    /\ feed' = RestOf(feed)
    /\ idx' = 1
    /\ pc' = "for_project"
    /\ UNCHANGED <<num_projects, project, crawled_urls, records, project_id_id,
                   project_html, item_fetches, output, call, ret>>

\* for discover_url in discover_url_iter(): requests.get, json.loads
FetchPage ==
    /\ pc = "crawl_loop"
    /\ page < MaxPage
    /\ discover_url' = page
    /\ page' = page + 1
    /\ last_call' = "page"
    /\ slept' = 0
    /\ data' = NextPageOf(feed)
    /\ feed' = RestOf(feed)
    /\ idx' = 1
    /\ pc' = "for_project"
    /\ UNCHANGED <<num_projects, project, crawled_urls, records, project_id_id,
                   project_html, item_fetches, output, call, ret>>

\* requests.get or json.loads raises, or the document has no 'projects' key
FetchPageFails ==
    /\ pc = "crawl_loop"
    /\ page < MaxPage
    /\ discover_url' = page
    /\ page' = page + 1
    /\ last_call' = "page"
    /\ slept' = 0
    /\ pc' = "aborted"
    /\ UNCHANGED <<num_projects, feed, data, idx, project, crawled_urls, records,
                   project_id_id, project_html, item_fetches, output, call, ret>>

\* for project in data[PROJECTS]: the page has no further entry
EndOfPage ==
    /\ pc = "for_project"
    /\ idx > Len(data)
    /\ pc' = "page_check"
    /\ UNCHANGED <<num_projects, feed, page, discover_url, data, idx, project,
                   crawled_urls, records, project_id_id, project_html, last_call,
                   slept, item_fetches, output, call, ret>>

\* (an id drawn for an entry that is then skipped)
SkipCrawled_TakesId ==
    /\ pc = "for_project"
    /\ idx <= Len(data)
    /\ project_url(data[idx]) \in crawled_urls
    /\ idx' = idx + 1
    /\ project_id_id' = project_id(project_id_id)
    /\ UNCHANGED <<pc, num_projects, feed, page, discover_url, data, project,
                   crawled_urls, records, project_html, last_call, slept,
                   item_fetches, output, call, ret>>

\* if url in crawled_urls: continue
SkipCrawled ==
    /\ pc = "for_project"
    /\ idx <= Len(data)
    /\ project_url(data[idx]) \in crawled_urls
    /\ idx' = idx + 1
    /\ UNCHANGED <<pc, num_projects, feed, page, discover_url, data, project,
                   crawled_urls, records, project_id_id, project_html, last_call,
                   slept, item_fetches, output, call, ret>>

\* (the url added and crawled without the membership test)
AddCrawled_Unchecked ==
    /\ pc = "for_project"
    /\ idx <= Len(data)
    /\ crawled_urls' = crawled_urls \cup {project_url(data[idx])}
    /\ project' = Some(data[idx])
    /\ pc' = "crawl_project"
    /\ UNCHANGED <<num_projects, feed, page, discover_url, data, idx, records,
                   project_id_id, project_html, last_call, slept, item_fetches,
                   output, call, ret>>

\* crawled_urls.add(url)
AddCrawled ==
    /\ pc = "for_project"
    /\ idx <= Len(data)
    /\ project_url(data[idx]) \notin crawled_urls
    /\ crawled_urls' = crawled_urls \cup {project_url(data[idx])}
    /\ project' = Some(data[idx])
    /\ pc' = "crawl_project"
    /\ UNCHANGED <<num_projects, feed, page, discover_url, data, idx, records,
                   project_id_id, project_html, last_call, slept, item_fetches,
                   output, call, ret>>

\* crawl_project: project_html = requests.get(project_url(project=project)).text
FetchItem ==
    /\ pc = "crawl_project"
    /\ \E doc \in CrawlDocs : project_html' = Some(doc)
    /\ item_fetches' = Append(item_fetches, project_url(Get(project)))
    /\ last_call' = "item"
    /\ slept' = 0
    /\ pc' = "extract"
    /\ UNCHANGED <<num_projects, feed, page, discover_url, data, idx, project,
                   crawled_urls, records, project_id_id, output, call, ret>>

\* requests.get raises
FetchItemFails ==
    /\ pc = "crawl_project"
    /\ item_fetches' = Append(item_fetches, project_url(Get(project)))
    /\ last_call' = "item"
    /\ slept' = 0
    /\ pc' = "aborted"
    /\ UNCHANGED <<num_projects, feed, page, discover_url, data, idx, project,
                   crawled_urls, records, project_id_id, project_html, output,
                   call, ret>>

\* what the two loops of crawl_project make of the item being processed,
\* with the id project_id hands out
\* (crawl_project tabulated over the entries, documents and ids of a crawl)
crawl_project_table ==
    [p \in Entries, html \in CrawlDocs, id \in -1..(2 * MaxFeedLen + 2)
        |-> crawl_project(p, html, id)]
Extracted == crawl_project_table[Get(project), Get(project_html), project_id(project_id_id)]

\* (the record built but not appended)
Extract_NoAppend ==
    /\ pc = "extract"
    /\ Extracted.ok
    /\ project_id_id' = project_id(project_id_id)
    /\ project_html' = None
    /\ pc' = "sleep_item"
    /\ UNCHANGED <<num_projects, feed, page, discover_url, data, idx, project,
                   crawled_urls, records, last_call, slept, item_fetches, output,
                   call, ret>>

\* crawl_project returns: data_dict[RECORDS][RECORD].append(project_dict)
Extract ==
    /\ pc = "extract"
    /\ Extracted.ok
    /\ project_id_id' = project_id(project_id_id)
    /\ records' = Append(records, Extracted.val)
    /\ project_html' = None
    /\ pc' = "sleep_item"
    /\ UNCHANGED <<num_projects, feed, page, discover_url, data, idx, project,
                   crawled_urls, last_call, slept, item_fetches, output, call, ret>>

\* (a failing item skipped instead of ending the run)
ExtractRaises_Skips ==
    /\ pc = "extract"
    /\ ~Extracted.ok
    /\ project_id_id' = project_id(project_id_id)
    /\ project_html' = None
    /\ pc' = "sleep_item"
    /\ UNCHANGED <<num_projects, feed, page, discover_url, data, idx, project,
                   crawled_urls, records, last_call, slept, item_fetches, output,
                   call, ret>>

\* an extractor raises: project_id has run (it is the first field), no
\* record is appended and the exception leaves crawl
ExtractRaises ==
    /\ pc = "extract"
    /\ ~Extracted.ok
    /\ project_id_id' = project_id(project_id_id)
    /\ project_html' = None
    /\ pc' = "aborted"
    /\ UNCHANGED <<num_projects, feed, page, discover_url, data, idx, project,
                   crawled_urls, records, last_call, slept, item_fetches, output,
                   call, ret>>

\* (no pause after an item)
SleepItem_NoSleep ==
    /\ pc = "sleep_item"
    /\ pc' = "item_check"
    /\ UNCHANGED <<num_projects, feed, page, discover_url, data, idx, project,
                   crawled_urls, records, project_id_id, project_html, last_call,
                   slept, item_fetches, output, call, ret>>

\* time.sleep(2) after an item
SleepItem ==
    /\ pc = "sleep_item"
    /\ slept' = slept + SLEEP
    /\ pc' = "item_check"
    /\ UNCHANGED <<num_projects, feed, page, discover_url, data, idx, project,
                   crawled_urls, records, project_id_id, project_html, last_call,
                   item_fetches, output, call, ret>>

\* the quota test of the inner loop
QuotaReached == Cardinality(crawled_urls) = num_projects

\* (the inner loop without its break)
ItemCheck_NoBreak ==
    /\ pc = "item_check"
    /\ project' = None
    /\ pc' = "for_project"
    /\ idx' = idx + 1
    /\ UNCHANGED <<num_projects, feed, page, discover_url, data, crawled_urls,
                   records, project_id_id, project_html, last_call, slept,
                   item_fetches, output, call, ret>>

\* if len(crawled_urls) == num_projects: break (inner loop)
ItemCheck ==
    /\ pc = "item_check"
    /\ project' = None
    /\ IF QuotaReached
       THEN pc' = "page_check" /\ idx' = idx
       ELSE pc' = "for_project" /\ idx' = idx + 1
    /\ UNCHANGED <<num_projects, feed, page, discover_url, data, crawled_urls,
                   records, project_id_id, project_html, last_call, slept,
                   item_fetches, output, call, ret>>

\* if len(crawled_urls) == num_projects: break (outer loop); return data_dict
PageCheck ==
    /\ pc = "page_check"
    /\ pc' = IF QuotaReached THEN "returned" ELSE "sleep_page"
    /\ UNCHANGED <<num_projects, feed, page, discover_url, data, idx, project,
                   crawled_urls, records, project_id_id, project_html, last_call,
                   slept, item_fetches, output, call, ret>>

\* time.sleep(2) after a page
SleepPage ==
    /\ pc = "sleep_page"
    /\ slept' = slept + SLEEP
    /\ pc' = "crawl_loop"
    /\ UNCHANGED <<num_projects, feed, page, discover_url, data, idx, project,
                   crawled_urls, records, project_id_id, project_html, last_call,
                   item_fetches, output, call, ret>>

\* __main__: json.dump(_data, f) once crawl has returned
WriteOutput ==
    /\ pc = "returned"
    /\ output' = Some(records)
    /\ pc' = "done"
    /\ UNCHANGED <<num_projects, feed, page, discover_url, data, idx, project,
                   crawled_urls, records, project_id_id, project_html, last_call,
                   slept, item_fetches, call, ret>>

Next ==
    \/ FetchPage
    \/ FetchPageFails
    \/ EndOfPage
    \/ SkipCrawled
    \/ AddCrawled
    \/ FetchItem
    \/ FetchItemFails
    \/ Extract
    \/ ExtractRaises
    \/ SleepItem
    \/ ItemCheck
    \/ PageCheck
    \/ SleepPage
    \/ WriteOutput

Spec == Init /\ [][Next]_vars

\* The cursor of discover_url_iter never ends.  Beyond page MaxPage the feed
\* is exhausted and every page is empty, so the fetches of those pages are
\* one repeated step that leaves the (untracked) page number at MaxPage.
FetchPageBeyond ==
    /\ pc = "crawl_loop"
    /\ page = MaxPage
    /\ discover_url' = page
    /\ last_call' = "page"
    /\ slept' = 0
    /\ data' = NextPageOf(feed)
    /\ feed' = RestOf(feed)
    /\ idx' = 1
    /\ pc' = "for_project"
    /\ UNCHANGED <<num_projects, page, project, crawled_urls, records, project_id_id,
                   project_html, item_fetches, output, call, ret>>

LiveNext == Next \/ FetchPageBeyond

\* crawl is sequential code: whenever it can take a step it takes one (a
\* fetch either returns or raises)
Fairness ==
    /\ WF_vars(FetchPage \/ FetchPageFails)
    /\ WF_vars(FetchPageBeyond)
    /\ WF_vars(EndOfPage)
    /\ WF_vars(SkipCrawled)
    /\ WF_vars(AddCrawled)
    /\ WF_vars(FetchItem \/ FetchItemFails)
    /\ WF_vars(Extract \/ ExtractRaises)
    /\ WF_vars(SleepItem)
    /\ WF_vars(ItemCheck)
    /\ WF_vars(PageCheck)
    /\ WF_vars(SleepPage)
    /\ WF_vars(WriteOutput)

LiveSpec == Init /\ [][LiveNext]_vars /\ Fairness

----------------------------------------------------------------------------
(* Properties of the crawl                                                 *)

RecordUrls == {records[i].url : i \in 1..Len(records)}
NoDuplicates(s) == \A i, j \in 1..Len(s) : s[i] = s[j] => i = j
\* canonical urls the feed holds at the start of the run
FeedUrls(f) == {project_url(f[i]) : i \in {k \in 1..Len(f) : f[k] # PageBreak}}
Completed == pc \in {"returned", "done"}
Finished == pc \in {"returned", "done", "aborted"}

\* C1: in every reachable state the number of records in CrawlResult is
\* between 0 and num_projects, for every accepted quota (0 included).
C1_QuotaBound == 0 <= Len(records) /\ Len(records) <= num_projects

\* C2: each canonical url is fetched and extracted at most once, every
\* fetched url was added to the DedupSet before, and no two records of
\* CrawlResult have the same url.
C2_AtMostOnce ==
    /\ NoDuplicates(item_fetches)
    /\ NoDuplicates([i \in 1..Len(records) |-> records[i].url])
    /\ \A i \in 1..Len(item_fetches) : item_fetches[i] \in crawled_urls
    /\ \A i \in 1..Len(records) : records[i].url = item_fetches[i]

\* the same item met twice on the page, under two tracking suffixes, both
\* entries handled, one fetch made
C2_Witness ==
    /\ pc = "for_project"
    /\ \E i, j \in 1..Len(data) :
          /\ i < j /\ j < idx
          /\ data[i].url # data[j].url
          /\ project_url(data[i]) = project_url(data[j])
          /\ project_url(data[i]) \in RecordUrls

\* C3: the ids of the records of CrawlResult, in append order, are 0, 1, 2, ...
C3_IdSequence == \A i \in 1..Len(records) : records[i].id = i - 1

\* two records, with a duplicate skipped between them
C3_Witness ==
    /\ Len(records) >= 2
    /\ \E i, j \in 1..Len(data) :
          /\ i < j /\ j < idx
          /\ project_url(data[i]) = project_url(data[j])
          /\ project_url(data[j]) # records[Len(records)].url

\* C4: once the record that makes |CrawlResult| equal to the quota is
\* appended, no discovery page and no item detail document is fetched any
\* more and the run is on its way out of crawl; crawl returns only with
\* |CrawlResult| equal to the quota.
C4_StopAtQuota ==
    [][ /\ (Len(records) = num_projects /\ Len(records) >= 1)
            => /\ item_fetches' = item_fetches
               /\ page' = page /\ discover_url' = discover_url
               /\ pc' \in {"item_check", "page_check", "returned", "done"}
        /\ (pc' \in {"returned", "done"}) => Len(records') = num_projects ]_vars

\* page [A, B, C] with quota 2: records A (id 0) and B (id 1), C never fetched
C4_Witness ==
    /\ pc = "done"
    /\ num_projects = 2
    /\ data = <<EntryA, EntryB, EntryC>>
    /\ Len(records) = 2
    /\ records[1].url = project_url(EntryA) /\ records[1].id = 0
    /\ records[2].url = project_url(EntryB) /\ records[2].id = 1
    /\ item_fetches = <<project_url(EntryA), project_url(EntryB)>>
    /\ page = 1

\* C5: whenever the feed holds at least num_projects unique items and no
\* fetch or extraction fails, the run eventually returns exactly
\* num_projects records.
C5_QuotaReached ==
    (Cardinality(FeedUrls(feed)) >= num_projects)
        => <>(pc = "aborted" \/ (Completed /\ Len(records) = num_projects))

\* the same for the quotas from 1 on
C5_PositiveQuota ==
    (num_projects >= 1 /\ Cardinality(FeedUrls(feed)) >= num_projects)
        => <>(pc = "aborted" \/ (Completed /\ Len(records) = num_projects))

\* C6: a run against a feed that holds fewer unique items than the quota
\* and then serves only empty pages eventually terminates.
C6_StopsAtExhaustion ==
    (Cardinality(FeedUrls(feed)) < num_projects) => <>Finished

\* C7: a failing page fetch, item fetch or extractor aborts the run: crawl
\* returns nothing, the failing item gets no record, the records collected
\* so far are not written and the output file stays unwritten.
C7_FatalOnError ==
    [][ /\ pc # "aborted"
        /\ (pc = "extract" /\ ~crawl_project(Get(project), Get(project_html), 0).ok)
              => pc' = "aborted"
        /\ pc' = "aborted"
              => /\ pc \in {"crawl_loop", "crawl_project", "extract"}
                 /\ records' = records
                 /\ output' = None
                 /\ (project' # None => project_url(Get(project')) \notin RecordUrls) ]_vars

\* an extractor failed on an item after a first record had been collected
C7_Witness ==
    /\ pc = "aborted"
    /\ Len(records) >= 1
    /\ project # None
    /\ project_id_id = Len(records)
    /\ output = None

IsFetch == page' # page \/ discover_url' # discover_url \/ item_fetches' # item_fetches

\* C10: every network fetch other than the run's first is preceded, since
\* the previous network fetch, by at least one delay of SLEEP time units.
C10_DelayBeforeEveryFetch ==
    [][ (IsFetch /\ last_call # "none") => slept >= SLEEP ]_vars

\* C10 as amended: a page fetch other than the first, and an item fetch
\* whose previous network fetch was an item fetch, come after a delay of
\* at least SLEEP; a delay follows each appended item and each page whose
\* end does not end the run.
C10_DelayAmended ==
    [][ /\ (page' # page /\ last_call # "none") => slept >= SLEEP
        /\ (item_fetches' # item_fetches /\ last_call = "item") => slept >= SLEEP
        /\ records' # records => pc' = "sleep_item"
        /\ pc = "sleep_item" => slept' = slept + SLEEP
        /\ (pc = "page_check" /\ ~QuotaReached) => pc' = "sleep_page"
        /\ pc = "sleep_page" => slept' = slept + SLEEP ]_vars

\* about to fetch an item after an earlier item fetch and a delay
C10_Witness ==
    /\ pc = "crawl_project"
    /\ last_call = "item"
    /\ slept >= SLEEP
    /\ Len(records) >= 1

\* the step is a fetch of a discovery page (one that returns or one that fails)
IsPageFetch == pc = "crawl_loop" /\ pc' # "crawl_loop"

\* C13: the first discovery page fetch of a run requests page 0 and every
\* later one the page number after the one requested before it, whatever
\* the pages between held; nothing else changes the requested page number.
C13_PageOrder ==
    /\ (page = 0 /\ discover_url = -1)
    /\ [][ /\ IsPageFetch => (discover_url' = discover_url + 1 /\ page' = discover_url' + 1)
           /\ ~IsPageFetch => (discover_url' = discover_url /\ page' = page) ]_vars

\* page 2 requested third, after pages that brought at most one new item
C13_Witness ==
    /\ pc = "for_project"
    /\ discover_url = 2
    /\ page = 3
    /\ Len(item_fetches) = 1
    /\ Len(records) = 1

\* the entry the inner loop is at has a canonical url already in the DedupSet
AtSeenEntry == pc = "for_project" /\ idx <= Len(data) /\ project_url(data[idx]) \in crawled_urls

\* C14: the step taken at a feed entry whose canonical url is already in
\* the DedupSet fetches nothing, sleeps for nothing and leaves CrawlResult,
\* the DedupSet and the id counter as they are; it only moves on to the
\* next entry of the page.
C14_SkipChangesNothing ==
    [][ AtSeenEntry =>
            /\ item_fetches' = item_fetches
            /\ page' = page /\ discover_url' = discover_url
            /\ last_call' = last_call
            /\ slept' = slept
            /\ records' = records
            /\ crawled_urls' = crawled_urls
            /\ project_id_id' = project_id_id
            /\ pc' = "for_project" /\ idx' = idx + 1 ]_vars

\* on a later page, past an entry that was skipped: no item fetch since the
\* page fetch, and the entry's canonical url has its record
C14_Witness ==
    /\ pc = "for_project"
    /\ idx = 2
    /\ discover_url >= 1
    /\ last_call = "page"
    /\ slept = 0
    /\ project_url(data[1]) \in RecordUrls
    /\ project_id_id = Len(records) - 1

AtQuotaTest == pc \in {"item_check", "page_check"}

\* C15: the url of an item is in the DedupSet when its detail document is
\* fetched, the DedupSet never loses a url, and whenever a quota test is
\* evaluated the DedupSet has as many urls as CrawlResult has records and
\* is the set of the records' urls, so that the test on its size is the
\* test on |CrawlResult|.
C15_DedupTracksResult ==
    [][ /\ item_fetches' # item_fetches =>
               /\ item_fetches' = Append(item_fetches, project_url(Get(project)))
               /\ project_url(Get(project)) \in crawled_urls
        /\ crawled_urls \subseteq crawled_urls'
        /\ AtQuotaTest' =>
               /\ Cardinality(crawled_urls') = Len(records')
               /\ RecordUrls' = crawled_urls'
               /\ QuotaReached' <=> (Len(records') = num_projects') ]_vars

\* the quota test after a page that brought two records
C15_Witness ==
    /\ pc = "page_check"
    /\ Len(records) = 2
    /\ Cardinality(crawled_urls) = 2
    /\ Len(data) >= 3

----------------------------------------------------------------------------
(* The extractors on their own: one call of an extractor on an input drawn *)
(* from the documents below.                                               *)

MaxTokenLen == 3    \* characters of the last token of a limit text
MaxBlocks == 3      \* pledge blocks of a detail document

TokenChars == {"0", "1", ")", "x", "-"}
LimitedLeftOf == <<"L", "i", "m", "i", "t", "e", "d", " ", "(", "3", " ", "l", "e", "f", "t", " ", "o", "f", " ">>
LimitedSoldOut == <<"L", "i", "m", "i", "t", "e", "d", " ", "(", "s", "o", "l", "d", " ", "o", "u", "t", ")">>
LimitTexts ==
    {pre \o tok : pre \in {<<>>, LimitedLeftOf}, tok \in SeqsUpTo(TokenChars, MaxTokenLen)}
        \cup {RewardUnavailable, RewardUnavailable \o <<" ">>,
              RewardUnavailable \o <<".">>, LimitedSoldOut}
CountTexts == {SevenBackers, ManyBackers, <<"7">>}
Optional(S) == {None} \cup {Some(x) : x \in S}
StatsElements == {[count |-> c, limit |-> l] : c \in Optional(CountTexts), l \in Optional(LimitTexts)}
TestBlocks ==
    {[desc |-> Some(<<"B">>), money |-> Some(PriceText), stats |-> st] : st \in Optional(StatsElements)}

DocBlocks == {NoRewardBlock, BlockA, BlockB, BlockBad}
TestDocs == {[badges |-> <<>>, pledges |-> ps] : ps \in SeqsUpTo(DocBlocks, MaxBlocks)}

MaxDays == 2        \* whole days a deadline or a clock reading lies after time 0

\* deadlines and clock readings: on a day boundary, just after, just before
Times == {d * SECONDS_PER_DAY + o : d \in 0..MaxDays, o \in {0, 1, SECONDS_PER_DAY - 1}}

MaxUrlLen == 2      \* characters of a feed entry url before its query suffix

\* urls.web.project of a feed entry: a path, then no query, a ref query, a
\* ref query with a value, two ref markers, or a query that is not a ref
UrlChars == {"a", "b", "?"}
UrlSuffixes ==
    {<<>>, RefMarker, RefMarker \o <<"=", "x">>, RefMarker \o <<"a">> \o RefMarker,
     <<"?", "r", "e">>}
TestUrls == {b \o q : b \in SeqsUpTo(UrlChars, MaxUrlLen), q \in UrlSuffixes}

MaxBadges == 2      \* span.link-soft-black.medium elements of a detail document

\* texts of badge elements: the badge itself, the badge inside a longer
\* text, another badge, an empty one, the wording in lower case
BadgeTexts ==
    {AllOrNothingText, <<"(">> \o AllOrNothingText \o <<".", ")">>,
     <<"F", "l", "e", "x">>, <<>>,
     <<"a", "l", "l", " ", "o", "r", " ", "n", "o", "t", "h", "i", "n", "g">>}
BadgeDocs == {[badges |-> bs, pledges |-> <<>>] : bs \in SeqsUpTo(BadgeTexts, MaxBadges)}

InitExtract ==
    /\ pc = "call"
    /\ \/ call \in {[fn |-> "pledge_total_backers", arg |-> b] : b \in TestBlocks}
       \/ call \in {[fn |-> "project_all_nothing", arg |-> d] : d \in BadgeDocs}
       \/ call \in {[fn |-> "project_url", arg |-> [url |-> u, complete |-> TRUE]] :
                        u \in TestUrls}
       \/ call \in {[fn |-> "project_days", arg |-> [deadline |-> t, now |-> n]] :
                        t \in Times, n \in Times}
       \/ call \in {[fn |-> "crawl_project", arg |-> [project |-> p, html |-> d]] :
                        p \in {EntryA, EntryC}, d \in TestDocs}
    /\ ret = None
    /\ num_projects = 0
    /\ feed = <<>>
    /\ page = 0
    /\ discover_url = -1
    /\ data = <<>>
    /\ idx = 1
    /\ project = None
    /\ crawled_urls = {}
    /\ records = <<>>
    /\ project_id_id = -1
    /\ project_html = None
    /\ last_call = "none"
    /\ slept = 0
    /\ item_fetches = <<>>
    /\ output = None

Call_pledge_total_backers ==
    /\ pc = "call"
    /\ call.fn = "pledge_total_backers"
    /\ ret' = Some(pledge_total_backers(call.arg))
    /\ pc' = "ret"
    /\ UNCHANGED <<num_projects, feed, page, discover_url, data, idx, project,
                   crawled_urls, records, project_id_id, project_html, last_call,
                   slept, item_fetches, output, call>>

\* crawl_project on a feed entry, requests.get returning call.arg.html
Call_crawl_project ==
    /\ pc = "call"
    /\ call.fn = "crawl_project"
    /\ project_id_id' = project_id(project_id_id)
    /\ ret' = Some(crawl_project(call.arg.project, call.arg.html, project_id(project_id_id)))
    /\ pc' = "ret"
    /\ UNCHANGED <<num_projects, feed, page, discover_url, data, idx, project,
                   crawled_urls, records, project_html, last_call, slept,
                   item_fetches, output, call>>

\* project_days on a feed entry's deadline, datetime.now() returning call.arg.now
Call_project_days ==
    /\ pc = "call"
    /\ call.fn = "project_days"
    /\ ret' = Some(Ok(project_days(call.arg.deadline, call.arg.now)))
    /\ pc' = "ret"
    /\ UNCHANGED <<num_projects, feed, page, discover_url, data, idx, project,
                   crawled_urls, records, project_id_id, project_html, last_call,
                   slept, item_fetches, output, call>>

\* project_url on a feed entry
Call_project_url ==
    /\ pc = "call"
    /\ call.fn = "project_url"
    /\ ret' = Some(Ok(project_url(call.arg)))
    /\ pc' = "ret"
    /\ UNCHANGED <<num_projects, feed, page, discover_url, data, idx, project,
                   crawled_urls, records, project_id_id, project_html, last_call,
                   slept, item_fetches, output, call>>

\* project_all_nothing on a detail document
Call_project_all_nothing ==
    /\ pc = "call"
    /\ call.fn = "project_all_nothing"
    /\ ret' = Some(Ok(project_all_nothing(call.arg)))
    /\ pc' = "ret"
    /\ UNCHANGED <<num_projects, feed, page, discover_url, data, idx, project,
                   crawled_urls, records, project_id_id, project_html, last_call,
                   slept, item_fetches, output, call>>

NextExtract ==
    \/ Call_pledge_total_backers
    \/ Call_project_all_nothing
    \/ Call_project_url
    \/ Call_project_days
    \/ Call_crawl_project

SpecExtract == InitExtract /\ [][NextExtract]_vars

----------------------------------------------------------------------------
(* Properties of the extractors                                            *)

Returned(fn) == pc = "ret" /\ call.fn = fn
Returns(r, v) == r.ok /\ r.val = v
SameResult(r, q) == r.ok = q.ok /\ (r.ok => r.val = q.val)
AllButLast(s) == SubSeq(s, 1, Len(s) - 1)
IsInteger(s) == AllDigits(s) \/ (s # <<>> /\ Head(s) \in {"-", "+"} /\ AllDigits(Tail(s)))
IntegerValue(s) ==
    IF AllDigits(s) THEN DecimalValue(s)
    ELSE IF Head(s) = "-" THEN 0 - DecimalValue(Tail(s)) ELSE DecimalValue(Tail(s))
\* the limit element of a block
LimitOf(b) == IF IsNone(b.stats) THEN None ELSE Get(b.stats).limit

C9_FirstBlockExcluded ==
    Returned("crawl_project") =>
        LET ps == call.arg.html.pledges
            n == Len(ps)
            r == Get(ret)
        IN  /\ r.ok <=> (call.arg.project.complete /\ \A j \in 2..n : reward_dict(ps[j]).ok)
            /\ r.ok => /\ Len(r.val.rewards) = Max(0, n - 1)
                       /\ \A j \in 1..Len(r.val.rewards) :
                             r.val.rewards[j] = reward_dict(ps[j + 1]).val

\* three blocks, the first one a block no reward extractor accepts: two rewards
C9_Witness ==
    /\ Returned("crawl_project")
    /\ Len(call.arg.html.pledges) = 3
    /\ ~reward_dict(call.arg.html.pledges[1]).ok
    /\ Get(ret).ok
    /\ Len(Get(ret).val.rewards) = 2

\* C11: project_days returns the difference deadline - now in days,
\* truncated toward zero, for positive and for negative differences alike.
C11_DaysTruncated ==
    Returned("project_days") =>
        LET diff == call.arg.deadline - call.arg.now
            r == Get(ret).val
        IN  IF diff >= 0
            THEN r >= 0 /\ r * SECONDS_PER_DAY <= diff /\ diff < (r + 1) * SECONDS_PER_DAY
            ELSE r <= 0 /\ (r - 1) * SECONDS_PER_DAY < diff /\ diff <= r * SECONDS_PER_DAY

\* C11 as amended: project_days returns the difference deadline - now in
\* days rounded down (toward minus infinity): the whole days left while the
\* deadline is ahead, and minus the number of days begun since the deadline
\* once it has passed (-1 from the first second after it).
C11_DaysFloored ==
    Returned("project_days") =>
        LET diff == call.arg.deadline - call.arg.now
            r == Get(ret).val
        IN  /\ Get(ret).ok
            /\ r * SECONDS_PER_DAY <= diff
            /\ diff < (r + 1) * SECONDS_PER_DAY

\* a deadline passed a day and a second ago: -2
C11_Witness ==
    /\ Returned("project_days")
    /\ call.arg.deadline - call.arg.now = 0 - (SECONDS_PER_DAY + 1)
    /\ Get(ret) = Ok(-2)

\* the url has a "?ref" in it
HasRefSuffix(u) == \E i \in 0..Len(u) : StartsAt(u, RefMarker, i)
\* what stands before the first "?ref" of the url
BeforeRef(u) ==
    SubSeq(u, 1, CHOOSE i \in 0..Len(u) :
                    StartsAt(u, RefMarker, i) /\ \A j \in 0..(i - 1) : ~StartsAt(u, RefMarker, j))

\* C12: project_url returns the url of the feed entry with everything from
\* "?ref" on removed and every character before it kept, and returns a url
\* that has no "?ref" whole.
C12_CanonicalUrl ==
    Returned("project_url") =>
        LET u == call.arg.url
            r == Get(ret).val
        IN  IF HasRefSuffix(u) THEN r = BeforeRef(u) ELSE r = u

\* the text includes "All or nothing"
IncludesAllOrNothing(text) == \E i \in 0..Len(text) : StartsAt(text, AllOrNothingText, i)

\* C16: project_all_nothing returns, without failing, true exactly when
\* one of the document's badge elements, at whatever place among them, has
\* a text that includes "All or nothing"; false when there is no badge.
C16_AllOrNothing ==
    Returned("project_all_nothing") =>
        LET badges == call.arg.badges
            r == Get(ret)
        IN  /\ r.ok
            /\ r.val <=> \E i \in 1..Len(badges) : IncludesAllOrNothing(badges[i])

====
